---- MODULE Spec2Model ----
(***************************************************************************)
(* Model of the cluster query manager of src/broker/query.go: the          *)
(* QueryManager (Send, onResponse, onRequest, Request, HandleFunc) and the *)
(* QueryAwaiter (Gather).  Goroutines are processes; every action is one   *)
(* atomic step of the Go code (a sync.Map call, an atomic add, a channel   *)
(* hand-off, a select case).                                               *)
(***************************************************************************)
EXTENDS Integers, Sequences, FiniteSets, Bags, TLC

(* ------------------------------ bounds --------------------------------- *)
\* Number of calls made on the manager (HandleFunc, Request and Send
\* together); every Request and every Send runs in its own goroutine.
MaxCalls == 3
\* Largest value service.NumPeers() returns.
MaxPeers == 2
\* The id counter is a uint32; the model keeps its wrap-around with a
\* smaller modulus.
IdMod == 2
\* Value returned by service.LocalName().
LocalName == 1

(* --------------------------- program constants ------------------------- *)
idSystem == 0
\* uint32(3939663052); kept as its numeral, which exceeds TLC's integers.
idQuery == "3939663052"

\* The literal "response" as a sequence of characters.
ResponseChannel == <<"r", "e", "s", "p", "o", "n", "s", "e">>

AwaiterIds == 1..MaxCalls
Senders == 1..MaxCalls
Ids == 0..(IdMod - 1)
\* sync.Map.Load miss / nil *QueryAwaiter.
NoAwaiter == 0

(* ---------------------------- input domains ---------------------------- *)
\* Inbound ssids: two, three and four segments.
InboundSsids ==
    {<<idSystem, idQuery>>}
        \cup {<<idSystem, idQuery, k>> : k \in Ids}
        \cup {<<idSystem, idQuery, 1, 0>>}

\* Inbound channel strings: "response", "p/1", "a/2", "s/x" (reply address
\* not numeric), "p/9223372036854775808" (reply address 2^63, one more
\* than an int64 holds), "p" (no separator).
InboundChannels ==
    { ResponseChannel,
      <<"p", "/", "1">>,
      <<"a", "/", "2">>,
      <<"s", "/", "x">>,
      <<"p", "/", "9", "2", "2", "3", "3", "7", "2", "0", "3", "6", "8",
        "5", "4", "7", "7", "5", "8", "0", "8">>,
      <<"p">> }

\* The inbound messages: every well-formed ssid with "response" and with
\* the two requests that parse; the requests that do not parse under one
\* ssid (onRequest fails on them before it looks at the ssid); the ssids
\* of the wrong length with a response and with a request.
InboundMessages ==
    {[ssid |-> <<idSystem, idQuery, k>>, channel |-> c] :
         k \in Ids, c \in {ResponseChannel, <<"p", "/", "1">>,
                           <<"a", "/", "2">>}}
        \cup {[ssid |-> <<idSystem, idQuery, 1>>, channel |-> c] :
                  c \in InboundChannels \ {ResponseChannel}}
        \cup {[ssid |-> x, channel |-> c] :
                  x \in {y \in InboundSsids : Len(y) # 3},
                  c \in {ResponseChannel, <<"p", "/", "1">>}}

\* Query types passed to Request.
RequestQueries == {<<"p">>}

\* Handlers that can be registered: the query types a handler claims and
\* the tag of the response it produces.
HandlerKinds ==
    { [tag |-> "h1", claims |-> {<<"p">>}],
      [tag |-> "h2", claims |-> {<<"p">>, <<"a">>}] }

\* The query types of the inbound requests.
Queries == {<<"p">>, <<"a">>, <<"s">>}

\* The zero value of a QueryHandler, which a slot shows while the write
\* that fills it is not yet visible to the reader; calling it panics.
Nil == [tag |-> "nil", claims |-> {}]

\* What a torn slice header shows in a slot beyond its array: the memory
\* behind it, not a handler.
Garbage == [tag |-> "garbage", claims |-> {}]

\* What a call through a Garbage slot does, decided anew at every read:
\* it faults as a call of nil does, or it runs code that is not a handler
\* and comes back with ok false or with ok true and some bytes.
Behind ==
    { Nil,
      [tag |-> "wild", claims |-> {}],
      [tag |-> "wild", claims |-> Queries] }

\* What a slot of c.handlers can hold or show.
Slots == HandlerKinds \cup {Nil, Garbage}

(* ------------------------------ helpers -------------------------------- *)
Digits == <<"0", "1", "2", "3", "4", "5", "6", "7", "8", "9">>

IsDigit(ch) == \E d \in 1..10 : Digits[d] = ch

DigitVal(ch) == (CHOOSE d \in 1..10 : Digits[d] = ch) - 1

\* strings.Split(s, "/"): the pieces between separators; always at least
\* one piece.
RECURSIVE Split(_, _)
Split(s, sep) ==
    IF \A k \in 1..Len(s) : s[k] # sep
    THEN <<s>>
    ELSE LET p == CHOOSE k \in 1..Len(s) :
                      s[k] = sep /\ \A j \in 1..(k - 1) : s[j] # sep
         IN <<SubSeq(s, 1, p - 1)>> \o Split(SubSeq(s, p + 1, Len(s)), sep)

\* The decimal digits of 2^63 - 1 and of 2^63, the largest magnitudes
\* of a positive and of a negative int64.
MaxInt64Text ==
    <<"9", "2", "2", "3", "3", "7", "2", "0", "3", "6", "8", "5", "4", "7",
      "7", "5", "8", "0", "7">>

MinInt64Text ==
    <<"9", "2", "2", "3", "3", "7", "2", "0", "3", "6", "8", "5", "4", "7",
      "7", "5", "8", "0", "8">>

\* A run of digits without its leading zeros (one digit is kept).
RECURSIVE StripZeros(_)
StripZeros(s) ==
    IF Len(s) > 1 /\ Head(s) = "0" THEN StripZeros(Tail(s)) ELSE s

\* Of two runs of digits of the same length, a stands for the larger
\* number.
TextGreater(a, b) ==
    \E k \in 1..Len(a) :
        /\ DigitVal(a[k]) > DigitVal(b[k])
        /\ \A j \in 1..(k - 1) : a[j] = b[j]

\* The magnitude written by the digits does not fit an int64 of the given
\* sign: strconv's ErrRange.
OutOfRange(body, negative) ==
    LET t == StripZeros(body)
        limit == IF negative THEN MinInt64Text ELSE MaxInt64Text
    IN \/ Len(t) > Len(limit)
       \/ (Len(t) = Len(limit) /\ TextGreater(t, limit))

\* An int64 is held as its numeral: the sign and the digits without
\* leading zeros.  Equal numbers have equal numerals.
Int64(negative, body) ==
    LET t == StripZeros(body)
    IN [negative |-> negative /\ t # <<"0">>, digits |-> t]

\* The value returned along with an error.
ZeroInt64 == [negative |-> FALSE, digits |-> <<"0">>]

\* Mutant of ParseInt: the error of the conversion is ignored, a text that
\* is not a number reads as 0.
ParseIntLenient(s) ==
    IF s # <<>> /\ Len(s) < 19 /\ \A k \in 1..Len(s) : IsDigit(s[k])
    THEN [ok |-> TRUE, val |-> Int64(FALSE, s)]
    ELSE [ok |-> TRUE, val |-> ZeroInt64]

\* strconv.ParseInt(s, 10, 64): optional sign, then one or more decimal
\* digits; anything else is a syntax error (ErrSyntax), and digits that
\* do not fit 64 bits are a range error (ErrRange).  Either error makes
\* onRequest return.
ParseInt(s) ==
    LET signed == s # <<>> /\ Head(s) \in {"+", "-"}
        negative == signed /\ Head(s) = "-"
        body == IF signed THEN Tail(s) ELSE s
    IN IF body = <<>> \/ \E k \in 1..Len(body) : ~IsDigit(body[k])
       THEN [ok |-> FALSE, val |-> ZeroInt64]
       ELSE IF OutOfRange(body, negative)
       THEN [ok |-> FALSE, val |-> ZeroInt64]
       ELSE [ok |-> TRUE, val |-> Int64(negative, body)]

\* fmt.Sprintf("%v", n) for a non-negative integer.
RECURSIVE FormatInt(_)
FormatInt(n) ==
    IF n < 10 THEN <<Digits[n + 1]>>
    ELSE FormatInt(n \div 10) \o <<Digits[(n % 10) + 1]>>

\* A QueryHandler applied to (queryType, request).
Handle(h, query, request) ==
    [ok |-> query \in h.claims, response |-> <<h.tag, request>>]

(* ------------------------------- state --------------------------------- *)
VARIABLES
    numPeers,   \* what service.NumPeers() returns
    next,       \* QueryManager.next
    awaiters,   \* QueryManager.awaiters: id -> awaiter (NoAwaiter if absent)
    handlers,   \* QueryManager.handlers
    appending,  \* the HandleFunc calls that have read c.handlers and not
                \* yet written it back, a bag: the slice read and the
                \* handler of each
    registered, \* the handlers whose HandleFunc call has returned, in the
                \* order of return
    aw,         \* the QueryAwaiter objects and the Request/Gather call on each
    snd,        \* the Send calls: position, channel, id looked up, awaiter
    last,       \* the Send call that finished last: arguments and outcome
    published,  \* the calls made to service.publish
    crashed     \* a goroutine panicked: the process is gone

vars ==
    <<numPeers, next, awaiters, handlers, appending, registered, aw, snd,
      last, published, crashed>>

NewAwaiter ==
    [pc |-> "new", id |-> 0, maximum |-> 0, c |-> 0, r |-> <<>>,
     fired |-> FALSE, via |-> "none", deletes |-> 0]

IdleSend == [pc |-> "idle", channel |-> <<>>, id |-> 0, target |-> NoAwaiter]

\* No Send call has finished yet.  A record holds the call's ssid and
\* channel, what it returned, the functions its loop called (a call of
\* nil calls none), the calls it made to peer.Send and the awaiter it
\* handed its payload to.
NoSend ==
    [ssid |-> <<>>, channel |-> <<>>, result |-> "none",
     invoked |-> <<>>, out |-> <<>>, target |-> NoAwaiter]

\* The payload of the message handled by Send call s: each inbound message
\* carries its own payload.
Payload(s) == s

\* The fields of QueryManager and QueryAwaiter, and the positions of the
\* calls running on them.
TypeOK ==
    /\ numPeers \in 0..MaxPeers
    /\ next \in Ids
    /\ awaiters \in [Ids -> AwaiterIds \cup {NoAwaiter}]
    /\ handlers \in Seq(Slots)
    /\ Len(handlers) <= MaxCalls
    /\ IsABag(appending)
    /\ \A call \in BagToSet(appending) :
           /\ call.base \in Seq(Slots)
           /\ call.h \in HandlerKinds
    /\ registered \in Seq(HandlerKinds)
    /\ Len(registered) + BagCardinality(appending)
           <= Cardinality(HandlerKinds)
    /\ \A i \in AwaiterIds :
           /\ aw[i].pc \in {"new", "alloc", "stored", "published", "select",
                            "defer", "returned"}
           /\ aw[i].id \in Ids
           /\ aw[i].maximum \in 0..MaxPeers
           /\ aw[i].c \in (0 - MaxCalls)..MaxPeers
           /\ aw[i].r \in Seq(Senders)
           /\ aw[i].fired \in BOOLEAN
           /\ aw[i].via \in {"none", "maximum", "timeout"}
           /\ aw[i].deletes \in 0..1
    /\ \A s \in Senders :
           /\ snd[s].pc \in {"idle", "send", "done", "panic"}
           /\ snd[s].channel \in InboundChannels \cup {<<>>}
           /\ snd[s].id \in Ids
           /\ snd[s].target \in AwaiterIds \cup {NoAwaiter}
    /\ last.result \in {"none", "nil", "InvalidQuery", "ParseError",
                        "NoHandlerFound", "PeerSendError", "panic"}
    /\ last.invoked \in Seq(HandlerKinds \cup (Behind \ {Nil}))
    /\ last.target \in AwaiterIds \cup {NoAwaiter}
    /\ crashed \in BOOLEAN

\* newQueryManager
Init ==
    /\ numPeers \in 0..MaxPeers
    /\ next = 0
    /\ awaiters = [k \in Ids |-> NoAwaiter]
    /\ handlers = <<>>
    /\ appending = EmptyBag
    /\ registered = <<>>
    /\ aw = [i \in AwaiterIds |-> NewAwaiter]
    /\ snd = [s \in Senders |-> IdleSend]
    /\ last = NoSend
    /\ published = {}
    /\ crashed = FALSE

\* Calls made so far (bounded by MaxCalls).
Calls ==
    Len(registered) + BagCardinality(appending)
        + Cardinality({i \in AwaiterIds : aw[i].pc # "new"})
        + Cardinality({s \in Senders : snd[s].pc # "idle"})

(* ------------------------------ HandleFunc ----------------------------- *)
\* The HandleFunc calls that have not returned.
Pending == BagToSet(appending)

\* The slice that a pending call writes back: append(c.handlers, handler)
\* on the slice it read.
Written(call) == Append(call.base, call.h)

\* What a reader can see of the slice that a pending call is writing:
\* the header with the new slot filled, or the header before the store
\* of the handler into the new slot is visible.
InFlight(call) == {Written(call), Append(call.base, Nil)}

\* A slice header put together from two: the array of x with the length
\* of y.  Up to the length of x it shows x's slots; beyond, what is not
\* a handler.
Mix(x, y) ==
    [k \in 1..Len(y) |-> IF k <= Len(x) THEN x[k] ELSE Garbage]

\* What a read of c.handlers can return, in the loop of onRequest and
\* in the append of HandleFunc alike (neither takes a lock): the slice
\* in place; the slice a pending HandleFunc call is writing, with its new
\* slot visible or not; and a header torn between two of these.
HandlerViews ==
    LET slices == {handlers} \cup UNION {InFlight(call) : call \in Pending}
    IN {Mix(x, y) : x \in slices, y \in slices}

\* HandleFunc calls made so far.
Registrations == Len(registered) + BagCardinality(appending)

\* HandleFunc, first half: c.handlers is read for the append.  The method
\* has no precondition and takes no lock, so calls overlap freely and the
\* read races with the write-back of every other call.  The caller makes
\* as many calls as it has handlers (the same one may be given twice).
HandleFunc(h) ==
    /\ ~crashed
    /\ Calls < MaxCalls
    /\ Registrations < Cardinality(HandlerKinds)
    /\ \E base \in HandlerViews :
           appending' = appending (+) SetToBag({[base |-> base, h |-> h]})
    /\ UNCHANGED <<numPeers, next, awaiters, handlers, registered, aw, snd,
                   last, published, crashed>>

\* HandleFunc, second half: the slice is written back to c.handlers and
\* the call returns.  A call that read the registry before another call's
\* write-back overwrites that write: the other handler is lost.
HandleFuncAppend(call) ==
    /\ ~crashed
    /\ call \in Pending
    /\ handlers' = Written(call)
    /\ appending' = appending (-) SetToBag({call})
    /\ registered' = Append(registered, call.h)
    /\ UNCHANGED <<numPeers, next, awaiters, aw, snd, last, published,
                   crashed>>

\* Two write-backs at the same time (a data race on c.handlers): the
\* header left behind has the array of one and the length of the other.
HandleFuncAppendTorn(call, other) ==
    /\ ~crashed
    /\ call \in Pending
    /\ other \in BagToSet(appending (-) SetToBag({call}))
    /\ handlers' = Mix(Written(call), Written(other))
    /\ appending' = appending (-) SetToBag({call}) (-) SetToBag({other})
    /\ registered' = registered \o <<other.h, call.h>>
    /\ UNCHANGED <<numPeers, next, awaiters, aw, snd, last, published,
                   crashed>>

(* ------------------------------- Request ------------------------------- *)
\* atomic.AddUint32(&c.next, 1): the new value of the counter.
AddUint32(n) == (n + 1) % IdMod

\* The awaiter literal: id from the atomic add, maximum from NumPeers().
RequestAlloc(i) ==
    /\ ~crashed
    /\ Calls < MaxCalls
    /\ aw[i].pc = "new"
    /\ \A j \in AwaiterIds : j < i => aw[j].pc # "new"
    /\ next' = AddUint32(next)
    /\ aw' = [aw EXCEPT ![i].pc = "alloc", ![i].id = next',
                        ![i].maximum = numPeers]
    /\ UNCHANGED <<numPeers, awaiters, handlers, appending, registered, snd, last, published, crashed>>

\* sync.Map.Store(key, value)
Store(table, key, value) == [table EXCEPT ![key] = value]

\* c.awaiters.Store(awaiter.id, awaiter)
RequestStore(i) ==
    /\ ~crashed
    /\ aw[i].pc = "alloc"
    /\ awaiters' = Store(awaiters, aw[i].id, i)
    /\ aw' = [aw EXCEPT ![i].pc = "stored"]
    /\ UNCHANGED <<numPeers, next, handlers, appending, registered, snd, last, published, crashed>>

\* Mutant of RequestChannel: the two arguments of the format are swapped.
RequestChannelSwapped(query) == FormatInt(LocalName) \o <<"/">> \o query

\* fmt.Sprintf("%v/%v", query, c.service.LocalName())
RequestChannel(query) == query \o <<"/">> \o FormatInt(LocalName)

\* c.service.publish(Ssid{idSystem, idQuery, awaiter.id}, channel, payload)
RequestPublish(i, query) ==
    /\ ~crashed
    /\ aw[i].pc = "stored"
    /\ published' = published \cup
                        {[ssid |-> <<idSystem, idQuery, aw[i].id>>,
                          channel |-> RequestChannel(query),
                          awaiter |-> i]}
    /\ aw' = [aw EXCEPT ![i].pc = "published"]
    /\ UNCHANGED <<numPeers, next, awaiters, handlers, appending, registered, snd, last, crashed>>

(* -------------------------------- Gather ------------------------------- *)
\* Entry of Gather: r = [], t = time.After(timeout), c = a.maximum.
GatherStart(i) ==
    /\ ~crashed
    /\ aw[i].pc = "published"
    /\ aw' = [aw EXCEPT ![i].pc = "select", ![i].c = aw[i].maximum,
                        ![i].r = <<>>]
    /\ UNCHANGED <<numPeers, next, awaiters, handlers, appending, registered, snd, last, published, crashed>>

\* The timeout elapses: the timer's channel becomes readable.
TimerFire(i) ==
    /\ ~crashed
    /\ aw[i].pc = "select"
    /\ ~aw[i].fired
    /\ aw' = [aw EXCEPT ![i].fired = TRUE]
    /\ UNCHANGED <<numPeers, next, awaiters, handlers, appending, registered, snd, last, published, crashed>>

\* if c == 0 { return }, after c--.
GotAll(c) == c = 0

\* Mutant of Collect: the newest payload is put in front.
CollectPrepend(r, msg) == <<msg>> \o r

\* Mutant of Collect: the slice is overwritten, not extended.
CollectOverwrite(r, msg) == <<msg>>

\* r = append(r, msg)
Collect(r, msg) == Append(r, msg)

\* sync.Map.Delete(key)
Delete(table, key) == [table EXCEPT ![key] = NoAwaiter]

\* defer func() { a.manager.awaiters.Delete(a.id) }(): the table once
\* Gather has returned.
Deferred(i) == Delete(awaiters, aw[i].id)

\* The record of a Send call that delivered its payload to an awaiter.
Delivered(s) ==
    [NoSend EXCEPT !.ssid = <<idSystem, idQuery, snd[s].id>>,
                   !.channel = snd[s].channel, !.result = "nil",
                   !.target = snd[s].target]

\* case msg := <-a.receive, the hand-off with a sender blocked in
\* onResponse: append, decrement, and on zero leave the loop; the deferred
\* delete is still to run.  The sender's onResponse returns nil.
GatherReceive(i, s) ==
    /\ ~crashed
    /\ aw[i].pc = "select"
    /\ snd[s].pc = "send"
    /\ snd[s].target = i
    /\ IF GotAll(aw[i].c - 1)
       THEN aw' = [aw EXCEPT ![i].r = Collect(aw[i].r, Payload(s)),
                             ![i].c = aw[i].c - 1,
                             ![i].pc = "defer",
                             ![i].via = "maximum"]
       ELSE aw' = [aw EXCEPT ![i].r = Collect(aw[i].r, Payload(s)),
                             ![i].c = aw[i].c - 1]
    /\ snd' = [snd EXCEPT ![s].pc = "done"]
    /\ last' = Delivered(s)
    /\ UNCHANGED <<numPeers, next, awaiters, handlers, appending, registered, published, crashed>>

\* The return after the last expected payload: the deferred delete runs
\* as a step of its own, after the sender was released.
GatherReturn(i) ==
    /\ ~crashed
    /\ aw[i].pc = "defer"
    /\ aw' = [aw EXCEPT ![i].pc = "returned",
                        ![i].deletes = aw[i].deletes + 1]
    /\ awaiters' = Deferred(i)
    /\ UNCHANGED <<numPeers, next, handlers, appending, registered, snd, last, published, crashed>>

\* The timer case of the select is ready.
TimeoutReady(i) == aw[i].fired

\* Mutant of TimeoutCleanup: the delete is not deferred, the timer case
\* returns without it.
TimeoutCleanupNone(i) == awaiters

\* The table after Gather returned on the timer case.
TimeoutCleanup(i) == Deferred(i)

\* case <-t: return, through the deferred delete.  Reading the timer's
\* channel touches nothing another goroutine can see, so the case and the
\* delete are one step.
GatherTimeout(i) ==
    /\ ~crashed
    /\ aw[i].pc = "select"
    /\ TimeoutReady(i)
    /\ aw' = [aw EXCEPT ![i].pc = "returned", ![i].via = "timeout",
                        ![i].deletes = aw[i].deletes + 1]
    /\ awaiters' = TimeoutCleanup(i)
    /\ UNCHANGED <<numPeers, next, handlers, appending, registered, snd, last, published, crashed>>

(* --------------------------------- Send -------------------------------- *)
\* Mutant of InvalidSsid: only too short an ssid is rejected.
InvalidSsidShort(ssid) == Len(ssid) < 3

\* len(ssid) != 3
InvalidSsid(ssid) == Len(ssid) # 3

\* The call starts: sender goroutines are taken in order.
CanSend(s) ==
    /\ ~crashed
    /\ Calls < MaxCalls
    /\ snd[s].pc = "idle"
    /\ \A t \in Senders : t < s => snd[t].pc # "idle"

\* The record of a Send call that returns without blocking.
Finished(ssid, channel, result, invoked, out) ==
    [ssid |-> ssid, channel |-> channel, result |-> result,
     invoked |-> invoked, out |-> out, target |-> NoAwaiter]

\* return errors.New("Invalid query received")
SendInvalid(s, ssid, channel) ==
    /\ CanSend(s)
    /\ InvalidSsid(ssid)
    /\ snd' = [snd EXCEPT ![s].pc = "done"]
    /\ last' = Finished(ssid, channel, "InvalidQuery", <<>>, <<>>)
    /\ UNCHANGED <<numPeers, next, awaiters, handlers, appending, registered, aw, published, crashed>>

\* c.awaiters.Load(id)
Load(table, id) == table[id]

\* Mutant of Found: the ok of Load is ignored.
FoundAlways(a) == TRUE

\* The ok of Load.
Found(a) == a # NoAwaiter

\* Mutant of ResponseId: the lookup key is taken from the wrong segment.
ResponseIdFirst(ssid) == ssid[1]

\* The id passed to onResponse: ssid[2], the third segment.
ResponseId(ssid) == ssid[3]

\* onResponse: the lookup; a hit goes on to the blocking send on the
\* awaiter's channel, a miss returns nil.
onResponse(s, ssid, channel) ==
    /\ CanSend(s)
    /\ ~InvalidSsid(ssid)
    /\ LET a == Load(awaiters, ResponseId(ssid))
       IN IF Found(a)
          THEN /\ snd' = [snd EXCEPT ![s] = [pc |-> "send",
                                             channel |-> channel,
                                             id |-> ssid[3], target |-> a]]
               /\ last' = last
          ELSE /\ snd' = [snd EXCEPT ![s].pc = "done"]
               /\ last' = Finished(ssid, channel, "nil", <<>>, <<>>)
    /\ UNCHANGED <<numPeers, next, awaiters, handlers, appending, registered, aw, published, crashed>>

\* The slice the loop ranges over, with every call through a Garbage
\* slot doing g.
Resolved(hs, g) ==
    [k \in 1..Len(hs) |-> IF hs[k] = Garbage THEN g ELSE hs[k]]

\* The loop over c.handlers from slot k on: the functions it calls, in
\* order, up to and including the first that returns ok; whether the
\* loop ended in a call of nil (fault); the response of the one that
\* returned ok.
RECURSIVE Dispatch(_, _, _, _)
Dispatch(hs, k, query, payload) ==
    IF k > Len(hs)
    THEN [invoked |-> <<>>, ok |-> FALSE, fault |-> FALSE, response |-> <<>>]
    ELSE IF hs[k] = Nil
    THEN [invoked |-> <<>>, ok |-> FALSE, fault |-> TRUE, response |-> <<>>]
    ELSE LET h == Handle(hs[k], query, payload)
         IN IF h.ok
            THEN [invoked |-> <<hs[k]>>, ok |-> TRUE, fault |-> FALSE,
                  response |-> h.response]
            ELSE LET rest == Dispatch(hs, k + 1, query, payload)
                 IN [rest EXCEPT !.invoked = <<hs[k]>> \o rest.invoked]

\* onRequest on a channel without separator: ch[1] is an index out of
\* range, the goroutine panics.
onRequestPanic(s, ssid, channel) ==
    /\ CanSend(s)
    /\ ~InvalidSsid(ssid)
    /\ Len(Split(channel, "/")) < 2
    /\ snd' = [snd EXCEPT ![s].pc = "panic"]
    /\ last' = Finished(ssid, channel, "panic", <<>>, <<>>)
    /\ crashed' = TRUE
    /\ UNCHANGED <<numPeers, next, awaiters, handlers, appending, registered, aw, published>>

\* The outcome of onRequest on a channel with a separator; hs is what the
\* loop reads as c.handlers and sendErr is whether peer.Send returns an
\* error.  The peer is named by the parsed reply address
\* (mesh.PeerName(reply), a conversion that keeps distinct addresses
\* distinct).
RequestOutcome(hs, ssid, channel, payload, sendErr) ==
    LET ch == Split(channel, "/")
        query == ch[1]
        reply == ParseInt(ch[2])
        d == Dispatch(hs, 1, query, payload)
    IN IF ~reply.ok
       THEN [result |-> "ParseError", invoked |-> <<>>, out |-> <<>>]
       ELSE IF d.fault
       THEN [result |-> "panic", invoked |-> d.invoked, out |-> <<>>]
       ELSE IF d.ok
       THEN [result |-> IF sendErr THEN "PeerSendError" ELSE "nil",
             invoked |-> d.invoked,
             out |-> <<[peer |-> reply.val, ssid |-> ssid,
                        channel |-> ResponseChannel,
                        payload |-> d.response]>>]
       ELSE [result |-> "NoHandlerFound", invoked |-> d.invoked,
             out |-> <<>>]

\* What onRequest can come to on a channel with a separator: the loop
\* ranges over what its read of c.handlers returns, and peer.Send
\* succeeds or fails.
RequestOutcomes(ssid, channel, payload) ==
    {RequestOutcome(Resolved(hs, g), ssid, channel, payload, sendErr) :
         hs \in HandlerViews, g \in Behind, sendErr \in BOOLEAN}

\* onRequest on a channel with a separator.  A call of nil is a panic of
\* the goroutine.
onRequest(s, ssid, channel) ==
    /\ CanSend(s)
    /\ ~InvalidSsid(ssid)
    /\ Len(Split(channel, "/")) >= 2
    /\ \E o \in RequestOutcomes(ssid, channel, Payload(s)) :
              /\ last' = Finished(ssid, channel, o.result, o.invoked, o.out)
              /\ snd' = [snd EXCEPT ![s].pc = IF o.result = "panic"
                                              THEN "panic" ELSE "done"]
              /\ crashed' = (o.result = "panic")
    /\ UNCHANGED <<numPeers, next, awaiters, handlers, appending,
                   registered, aw, published>>

\* Mutant of IsResponse: a channel without a separator is taken for a
\* response.
IsResponseNoSeparator(channel) == \A k \in 1..Len(channel) : channel[k] # "/"

\* case "response" of the switch on string(channel).
IsResponse(channel) == channel = ResponseChannel

\* Send: the arity check, then the switch on the channel string.
Send(s, ssid, channel) ==
    \/ SendInvalid(s, ssid, channel)
    \/ (IsResponse(channel) /\ onResponse(s, ssid, channel))
    \/ (~IsResponse(channel) /\ onRequestPanic(s, ssid, channel))
    \/ (~IsResponse(channel) /\ onRequest(s, ssid, channel))

(* ---------------------------- specifications --------------------------- *)
Next ==
    \/ \E h \in HandlerKinds : HandleFunc(h)
    \/ \E call \in Pending : HandleFuncAppend(call)
    \/ \E call, other \in Pending : HandleFuncAppendTorn(call, other)
    \/ \E i \in AwaiterIds : RequestAlloc(i)
    \/ \E i \in AwaiterIds : RequestStore(i)
    \/ \E i \in AwaiterIds, q \in RequestQueries : RequestPublish(i, q)
    \/ \E i \in AwaiterIds : GatherStart(i)
    \/ \E i \in AwaiterIds : TimerFire(i)
    \/ \E i \in AwaiterIds, s \in Senders : GatherReceive(i, s)
    \/ \E i \in AwaiterIds : GatherReturn(i)
    \/ \E i \in AwaiterIds : GatherTimeout(i)
    \/ \E s \in Senders, m \in InboundMessages : Send(s, m.ssid, m.channel)

Spec == Init /\ [][Next]_vars

\* The scheduler runs every goroutine that can take a step; a select with
\* a ready timer case eventually takes it.
Fairness ==
    /\ WF_vars(\E call \in Pending : HandleFuncAppend(call))
    /\ \A i \in AwaiterIds :
        /\ WF_vars(RequestStore(i))
        /\ WF_vars(\E q \in RequestQueries : RequestPublish(i, q))
        /\ WF_vars(GatherStart(i))
        /\ WF_vars(TimerFire(i))
        /\ WF_vars(GatherReturn(i))
        /\ WF_vars(GatherTimeout(i))
        /\ WF_vars(\E s \in Senders : GatherReceive(i, s))

FairSpec == Spec /\ Fairness

(* ------------------------------- claims -------------------------------- *)
InGather(i) == aw[i].pc = "select"
Returned(i) == aw[i].pc = "returned"

\* C1: no delivering context blocks indefinitely.  A Send call blocked in
\* the hand-off to an awaiter whose Gather has returned stays blocked for
\* ever, since nothing receives from that awaiter's channel again; so no
\* Send call may ever be blocked on an awaiter whose Gather has returned.
C1_NoDeliveryBlocksForever ==
    \A s \in Senders :
        snd[s].pc = "send" => ~Returned(snd[s].target)

\* C2: every Gather call eventually returns, the timer being assumed to
\* fire (FairSpec).
C2_GatherReturns ==
    \A i \in AwaiterIds : InGather(i) ~> Returned(i)

\* C2, in a process that is still running: a Gather call returns unless a
\* panic ended the process.
C2_GatherReturnsWhileRunning ==
    \A i \in AwaiterIds : InGather(i) ~> (Returned(i) \/ crashed)

\* C3: Gather never holds more than maximum payloads, and it returns before
\* the timeout has elapsed only when it holds exactly maximum payloads.
C3_StopsAtMaximum ==
    \A i \in AwaiterIds :
        /\ Len(aw[i].r) <= aw[i].maximum
        /\ (Returned(i) /\ ~aw[i].fired) => Len(aw[i].r) = aw[i].maximum

\* C3, for an awaiter whose maximum is not zero.
C3_StopsAtPositiveMaximum ==
    \A i \in AwaiterIds :
        aw[i].maximum > 0 =>
            /\ Len(aw[i].r) <= aw[i].maximum
            /\ (Returned(i) /\ ~aw[i].fired) => Len(aw[i].r) = aw[i].maximum

\* C4: a query issued with maximum = 0 returns an empty sequence from
\* Gather, whatever responses arrive.
C4_EmptyWhenNoPeers ==
    \A i \in AwaiterIds :
        (Returned(i) /\ aw[i].maximum = 0) => aw[i].r = <<>>

\* C5: on both termination paths Gather removes its awaiter from the table
\* exactly once (one delete per Gather call, none before it returns), and
\* once Gather has returned no table entry maps to that awaiter.
C5_CleanupOnce ==
    \A i \in AwaiterIds :
        /\ Returned(i) =>
               /\ aw[i].deletes = 1
               /\ \A k \in Ids : awaiters[k] # i
        /\ ~Returned(i) => aw[i].deletes = 0

\* C5 witness: Gather returned on the timer case while a delivery to it was
\* ready as well, and its entry is gone.
C5_Witness ==
    \E i \in AwaiterIds, s \in Senders :
        /\ Returned(i) /\ aw[i].via = "timeout"
        /\ snd[s].pc = "send" /\ snd[s].target = i
        /\ awaiters[aw[i].id] = NoAwaiter

\* The Send calls whose delivery to awaiter i completed.
DeliveredTo(i) == {s \in Senders : snd[s].pc = "done" /\ snd[s].target = i}

\* C6: every payload whose delivery to an awaiter completed is held exactly
\* once by that awaiter's Gather, and Gather holds nothing else.
C6_DeliveredExactlyOnce ==
    \A i \in AwaiterIds :
        /\ \A s \in DeliveredTo(i) :
               Cardinality({k \in 1..Len(aw[i].r) :
                                aw[i].r[k] = Payload(s)}) = 1
        /\ \A k \in 1..Len(aw[i].r) :
               \E s \in DeliveredTo(i) : aw[i].r[k] = Payload(s)
        /\ Len(aw[i].r) = Cardinality(DeliveredTo(i))

\* C6 witness: Gather returned the two payloads delivered to it.
C6_Witness ==
    \E i \in AwaiterIds :
        Returned(i) /\ Len(aw[i].r) = 2 /\ Cardinality(DeliveredTo(i)) = 2

\* C7: Send returns a result, success or an error value, for every inbound
\* message, and the manager goes on.
C7_SendAlwaysReturns == last.result # "panic" /\ ~crashed

\* Send call s starts and finishes in this step; last' is its record.
Finishes(s) == snd[s].pc = "idle" /\ snd'[s].pc \in {"done", "panic"}

\* C8: a message whose ssid does not have exactly 3 segments makes Send
\* fail with InvalidQuery; no handler is invoked, no payload delivered, no
\* response sent, and the table is unchanged.
C8_InvalidSsidRejected ==
    [][\A s \in Senders :
           (Finishes(s) /\ Len(last'.ssid) # 3) =>
               /\ snd'[s].pc = "done"
               /\ last'.result = "InvalidQuery"
               /\ last'.invoked = <<>>
               /\ last'.out = <<>>
               /\ last'.target = NoAwaiter
               /\ aw' = aw
               /\ awaiters' = awaiters]_vars

\* C8 witness: a 4-segment message was rejected by a manager that has a
\* handler and a registered awaiter.
C8_Witness ==
    /\ last.result = "InvalidQuery"
    /\ Len(last.ssid) = 4
    /\ handlers # <<>>
    /\ \E k \in Ids : awaiters[k] # NoAwaiter

\* C9: a response for an id that is not in the table is a no-op: Send
\* returns nil at once, no awaiter receives the payload, the table is
\* unchanged; a Send call blocks only on an id that was in the table.
C9_UnknownIdNoOp ==
    [][\A s \in Senders :
           /\ (snd[s].pc = "idle" /\ snd'[s].pc = "send") =>
                  awaiters[snd'[s].id] # NoAwaiter
           /\ (/\ Finishes(s)
               /\ last'.channel = ResponseChannel
               /\ Len(last'.ssid) = 3
               /\ awaiters[last'.ssid[3]] = NoAwaiter) =>
                  /\ snd'[s].pc = "done"
                  /\ last'.result = "nil"
                  /\ last'.target = NoAwaiter
                  /\ last'.out = <<>>
                  /\ aw' = aw
                  /\ awaiters' = awaiters]_vars

\* C9 witness: a response arrived for the id of an awaiter whose Gather
\* had returned, and was dropped.
C9_Witness ==
    /\ last.channel = ResponseChannel
    /\ Len(last.ssid) = 3
    /\ last.result = "nil"
    /\ last.target = NoAwaiter
    /\ \E i \in AwaiterIds :
           Returned(i) /\ aw[i].id = last.ssid[3] /\ aw[i].r = <<>>

\* The query type of a request channel: the text before the first
\* separator.
QueryOf(channel) == Split(channel, "/")[1]

\* The handlers as registered when a request is dispatched: those whose
\* HandleFunc call has returned, in the order of return, followed by any
\* of those whose call is still running, in any order.
RegistrationOrders ==
    LET running(h) == {call \in Pending : call.h = h}
        count(h) == BagCardinality([call \in running(h) |-> appending[call]])
        tails == UNION {[1..n -> HandlerKinds] :
                            n \in 0..BagCardinality(appending)}
    IN {registered \o t :
            t \in {q \in tails :
                       \A h \in HandlerKinds :
                           Cardinality({k \in 1..Len(q) : q[k] = h})
                               <= count(h)}}

\* What C10 says of the request that Send call s finishes in this step,
\* reg being the handlers registered.
FirstMatch(s, reg) ==
    LET inv == last'.invoked
        n == Len(inv)
        query == QueryOf(last'.channel)
    IN /\ n <= Len(reg)
       /\ inv = SubSeq(reg, 1, n)
       /\ \A j \in 1..(n - 1) : ~Handle(inv[j], query, Payload(s)).ok
       /\ Len(last'.out) <= 1
       /\ IF n > 0 /\ Handle(inv[n], query, Payload(s)).ok
          THEN /\ Len(last'.out) = 1
               /\ last'.out[1].payload =
                      Handle(inv[n], query, Payload(s)).response
          ELSE last'.out = <<>>
       /\ last'.result = "NoHandlerFound" => n = Len(reg)

\* C10: for every request, the functions invoked are the registered
\* handlers in registration order, from the first up to the first that
\* claims the query and none after it; the response sent is exactly the
\* output of that handler; at most one response is sent; and a request
\* is refused for want of a handler only after every registered handler
\* was asked.
C10_FirstMatch ==
    [][\A s \in Senders :
           (/\ Finishes(s)
            /\ Len(last'.ssid) = 3
            /\ last'.channel # ResponseChannel) =>
               \E reg \in RegistrationOrders : FirstMatch(s, reg)]_vars

\* C10 for the requests dispatched while no HandleFunc call is running,
\* the registration having come before the traffic.  This fails as well:
\* HandleFunc calls that overlapped have lost a handler or left a slot
\* that holds none.
C10_FirstMatchAfterRegistration ==
    [][\A s \in Senders :
           (/\ Finishes(s)
            /\ appending = EmptyBag
            /\ Len(last'.ssid) = 3
            /\ last'.channel # ResponseChannel) =>
               FirstMatch(s, registered)]_vars

\* Every HandleFunc call has returned and each found the slice its
\* predecessor wrote: the registry holds the registered handlers.
RegistryIntact == appending = EmptyBag /\ handlers = registered

\* What the loop of onRequest does give: first-match dispatch over
\* c.handlers, which is the registration order when the registry is
\* intact.
C10_FirstMatchIntact ==
    [][\A s \in Senders :
           (/\ Finishes(s)
            /\ RegistryIntact
            /\ Len(last'.ssid) = 3
            /\ last'.channel # ResponseChannel) =>
               FirstMatch(s, registered)]_vars

\* The text after the first separator of a request channel, up to the next.
ReplyAddress(channel) ==
    LET p == CHOOSE k \in 1..Len(channel) :
                 channel[k] = "/" /\ \A j \in 1..(k - 1) : channel[j] # "/"
        rest == SubSeq(channel, p + 1, Len(channel))
    IN IF \E k \in 1..Len(rest) : rest[k] = "/"
       THEN SubSeq(rest, 1, (CHOOSE k \in 1..Len(rest) :
                rest[k] = "/" /\ \A j \in 1..(k - 1) : rest[j] # "/") - 1)
       ELSE rest

\* The channel has a separator.
HasReplyAddress(channel) == \E k \in 1..Len(channel) : channel[k] = "/"

\* A non-empty run of decimal digits.
Decimal(text) ==
    /\ text # <<>>
    /\ \A k \in 1..Len(text) :
           text[k] \in {"0", "1", "2", "3", "4", "5", "6", "7", "8", "9"}

\* C11: every request that no registered handler claims (the registry
\* may be empty; a handler whose HandleFunc call is still running counts
\* as registered) makes onRequest fail with NoHandlerFound, and no
\* message is sent to any peer.
C11_NoHandlerFound ==
    [][\A s \in Senders :
           (/\ Finishes(s)
            /\ Len(last'.ssid) = 3
            /\ last'.channel # ResponseChannel
            /\ \A j \in 1..Len(registered) :
                   QueryOf(last'.channel) \notin registered[j].claims
            /\ \A call \in Pending :
                   QueryOf(last'.channel) \notin call.h.claims) =>
               /\ snd'[s].pc = "done"
               /\ last'.result = "NoHandlerFound"
               /\ last'.out = <<>>]_vars

\* What onRequest does give: with the registry intact, a request whose
\* channel has a reply address that parses and that no registered handler
\* claims fails with NoHandlerFound after every handler was asked, and
\* nothing is sent.
C11_NoHandlerFoundAfterParse ==
    [][\A s \in Senders :
           (/\ Finishes(s)
            /\ RegistryIntact
            /\ Len(last'.ssid) = 3
            /\ last'.channel # ResponseChannel
            /\ HasReplyAddress(last'.channel)
            /\ ParseInt(ReplyAddress(last'.channel)).ok
            /\ \A j \in 1..Len(registered) :
                   QueryOf(last'.channel) \notin registered[j].claims) =>
               /\ snd'[s].pc = "done"
               /\ last'.result = "NoHandlerFound"
               /\ last'.out = <<>>
               /\ last'.invoked = registered
               /\ last'.target = NoAwaiter
               /\ aw' = aw]_vars

\* C12: a request whose reply address is not a decimal number makes
\* onRequest return the parse error; no handler is invoked, no response is
\* sent, and nothing is kept of the request for a later retry.
C12_MalformedReplyAddress ==
    [][\A s \in Senders :
           (/\ Finishes(s)
            /\ Len(last'.ssid) = 3
            /\ last'.channel # ResponseChannel
            /\ HasReplyAddress(last'.channel)
            /\ ~Decimal(ReplyAddress(last'.channel))) =>
               /\ snd'[s].pc = "done"
               /\ last'.result = "ParseError"
               /\ last'.invoked = <<>>
               /\ last'.out = <<>>
               /\ last'.target = NoAwaiter
               /\ <<aw, awaiters, published, handlers, next>>' =
                      <<aw, awaiters, published, handlers, next>>]_vars

\* The other error of the conversion: a reply address of decimal digits
\* that does not fit 64 bits is refused the same way.
C12_RangeErrorRefused ==
    (Len(last.ssid) = 3 /\ Len(last.channel) > 20) =>
        /\ last.result = "ParseError"
        /\ last.invoked = <<>>
        /\ last.out = <<>>

\* C12 witness: the request "s/x" was refused with the parse error by a
\* manager that has a handler registered.
C12_Witness ==
    /\ last.channel = <<"s", "/", "x">>
    /\ Len(last.ssid) = 3
    /\ last.result = "ParseError"
    /\ handlers # <<>>

\* Sequence p is an initial part of sequence q.
IsPrefix(p, q) == Len(p) <= Len(q) /\ SubSeq(q, 1, Len(p)) = p

\* C13: Gather returns the payloads in arrival order: every hand-off that
\* completes puts its payload behind all payloads handed off before it, and
\* payloads already collected keep their places, whichever peers sent them.
C13_ArrivalOrder ==
    [][\A i \in AwaiterIds :
           /\ IsPrefix(aw[i].r, aw'[i].r)
           /\ \A s \in Senders :
                  (snd[s].pc = "send" /\ snd'[s].pc = "done"
                       /\ snd[s].target = i) =>
                      aw'[i].r = aw[i].r \o <<Payload(s)>>]_vars

\* C13 witness: Gather returned two payloads, and the one that reached
\* Send second was handed off first and stands first.
C13_Witness ==
    \E i \in AwaiterIds :
        /\ Returned(i)
        /\ aw[i].r = <<Payload(2), Payload(1)>>

\* Awaiter i is pending: Request has inserted it and its Gather has not
\* returned.
Registered(i) == aw[i].pc \in {"stored", "published", "select", "defer"}

\* C14: in every state in which a request with correlation id k has been
\* published and the issuing awaiter's Gather has not returned, the table
\* holds that awaiter under k.
C14_RegisteredWhilePublished ==
    \A m \in published :
        ~Returned(m.awaiter) => awaiters[m.ssid[3]] = m.awaiter

\* The order of Request by itself: the awaiter of a published request is
\* past its Store, and while it is pending it is missing from the table
\* only when another Request was given the same id.
C14_InsertBeforePublish ==
    \A m \in published :
        /\ aw[m.awaiter].pc \in {"published", "select", "defer", "returned"}
        /\ aw[m.awaiter].id = m.ssid[3]
        /\ (/\ ~Returned(m.awaiter)
            /\ \A j \in AwaiterIds \ {m.awaiter} :
                   aw[j].pc = "new" \/ aw[j].id # m.ssid[3]) =>
               awaiters[m.ssid[3]] = m.awaiter

\* C15: while an awaiter is registered, no other Request is given its
\* correlation id; Requests whose awaiters are pending together hold
\* pairwise distinct ids.
C15_DistinctWhileRegistered ==
    \A i, j \in AwaiterIds :
        (i # j /\ Registered(i) /\ aw[j].pc # "new") => aw[i].id # aw[j].id

\* What the counter does give: the ids of fewer than IdMod + 1 Requests
\* in a row are pairwise distinct.
C15_DistinctWithinOneCycle ==
    \A i, j \in AwaiterIds :
        (i < j /\ j - i < IdMod /\ aw[j].pc # "new") => aw[i].id # aw[j].id

\* C16: responses are correlated by id only: a response whose third ssid
\* segment is k goes to the awaiter the table holds under k and to no
\* other, and every payload a Gather collected came in a response
\* carrying that awaiter's own id.
C16_CorrelatedById ==
    [][/\ \A s \in Senders :
              (snd[s].pc = "idle" /\ snd'[s].pc = "send") =>
                  /\ snd'[s].target = awaiters[snd'[s].id]
                  /\ aw[snd'[s].target].id = snd'[s].id
       /\ \A i \in AwaiterIds :
              \A n \in 1..Len(aw'[i].r) :
                  LET s == CHOOSE t \in Senders : Payload(t) = aw'[i].r[n]
                  IN /\ snd'[s].pc = "done"
                     /\ snd'[s].target = i
                     /\ snd'[s].id = aw'[i].id
                     /\ \A j \in AwaiterIds \ {i} :
                            \A q \in 1..Len(aw'[j].r) :
                                aw'[j].r[q] # aw'[i].r[n]]_vars

\* C16 witness: two queries with different ids are outstanding in Gather,
\* a response for one of them has been collected by it and not by the
\* other.
C16_Witness ==
    \E i, j \in AwaiterIds :
        /\ InGather(i) /\ InGather(j)
        /\ aw[i].id # aw[j].id
        /\ Len(aw[i].r) = 1
        /\ aw[j].r = <<>>
        /\ last.target = i
        /\ last.ssid[3] = aw[i].id

\* The number a run of decimal digits stands for.
RECURSIVE DecimalValue(_)
DecimalValue(text) ==
    IF text = <<>> THEN 0
    ELSE LET d == text[Len(text)]
             v == CASE d = "0" -> 0 [] d = "1" -> 1 [] d = "2" -> 2
                    [] d = "3" -> 3 [] d = "4" -> 4 [] d = "5" -> 5
                    [] d = "6" -> 6 [] d = "7" -> 7 [] d = "8" -> 8
                    [] d = "9" -> 9
         IN 10 * DecimalValue(SubSeq(text, 1, Len(text) - 1)) + v

\* The digits of a non-negative number.
RECURSIVE NumeralOf(_)
NumeralOf(n) ==
    LET d == n % 10
        c == CASE d = 0 -> "0" [] d = 1 -> "1" [] d = 2 -> "2" [] d = 3 -> "3"
               [] d = 4 -> "4" [] d = 5 -> "5" [] d = 6 -> "6" [] d = 7 -> "7"
               [] d = 8 -> "8" [] d = 9 -> "9"
    IN IF n < 10 THEN <<c>> ELSE NumeralOf(n \div 10) \o <<c>>

\* A response message as C17 wants it: to peer n, under id k, on the
\* channel "response".
IsResponseTo(msg, n, k) ==
    /\ msg.peer = [negative |-> FALSE, digits |-> NumeralOf(n)]
    /\ Len(msg.ssid) = 3
    /\ msg.ssid[3] = k
    /\ msg.channel = <<"r", "e", "s", "p", "o", "n", "s", "e">>

\* C17: the response to a claimed request goes to the peer named by the
\* reply address of the request channel, under the ssid of the request and
\* on the channel "response"; so a node that claims a request published by
\* Request on node LocalName under id k answers to LocalName under k.
C17_ResponseAddressing ==
    /\ last.out # <<>> =>
           /\ Len(last.out) = 1
           /\ last.out[1].ssid = last.ssid
           /\ IsResponseTo(last.out[1],
                           DecimalValue(ReplyAddress(last.channel)),
                           last.ssid[3])
    /\ \A m \in published :
           \A h \in {g \in HandlerKinds : g.claims # {}} :
               LET o == RequestOutcome(<<h>>, m.ssid, m.channel, 1, FALSE)
               IN /\ Len(o.out) = 1
                  /\ IsResponseTo(o.out[1], LocalName, aw[m.awaiter].id)

\* C17 witness: this node published a request, and it answered the request
\* "a/2" of peer 2 with a response to peer 2 under the request's id.
C17_Witness ==
    /\ published # {}
    /\ last.channel = <<"a", "/", "2">>
    /\ Len(last.out) = 1
    /\ last.out[1].peer.digits = <<"2">>
    /\ last.out[1].ssid[3] = last.ssid[3]

\* C18: a 3-segment message is classified by its channel string alone: on
\* the channel "response" no handler is invoked and nothing is sent to a
\* peer; on any other channel no payload is handed to an awaiter.
C18_ClassifiedByChannel ==
    /\ (Len(last.ssid) = 3
            /\ last.channel = <<"r", "e", "s", "p", "o", "n", "s", "e">>) =>
           (last.invoked = <<>> /\ last.out = <<>>)
    /\ (Len(last.ssid) = 3
            /\ last.channel # <<"r", "e", "s", "p", "o", "n", "s", "e">>) =>
           last.target = NoAwaiter
    /\ \A s \in Senders :
           snd[s].target # NoAwaiter =>
               snd[s].channel = <<"r", "e", "s", "p", "o", "n", "s", "e">>

\* C18 witness: with a handler that claims "p" registered and an awaiter in
\* the table, a response was handed to the awaiter without a handler being
\* invoked.
C18_Witness ==
    /\ handlers # <<>>
    /\ handlers[1].claims # {}
    /\ last.channel = ResponseChannel
    /\ last.target # NoAwaiter
    /\ last.invoked = <<>>
    /\ last.out = <<>>

\* C19: a fresh manager issues correlation ids from 0: the first Request
\* carries id 0 and each later Request the previous id plus one, modulo
\* the width of the counter.
C19_IdsStartAtZero ==
    \A i \in AwaiterIds :
        aw[i].pc # "new" =>
            /\ (i = 1 => aw[i].id = 0)
            /\ (i > 1 => aw[i].id = (aw[i - 1].id + 1) % IdMod)

\* What Request does issue: the n-th Request carries id n modulo the width
\* of the counter, so the first id is 1.
C19_IdsStartAtOne ==
    \A i \in AwaiterIds : aw[i].pc # "new" => aw[i].id = i % IdMod

\* C20: the table entry of an awaiter whose Gather has not returned is
\* never removed or replaced by a step of another awaiter's Request or
\* Gather, the id counter being allowed to wrap.
C20_OnlyOwnRegistration ==
    [][\A i \in AwaiterIds :
           (/\ Registered(i)
            /\ awaiters[aw[i].id] = i
            /\ aw'[i].pc # "returned") =>
               awaiters'[aw[i].id] = i]_vars

\* What the table does give: the entry of a pending awaiter is removed or
\* replaced only by its own Gather or by the Request or Gather of an
\* awaiter that was given the same id.
C20_OnlySameId ==
    [][\A i \in AwaiterIds :
           (/\ Registered(i)
            /\ awaiters[aw[i].id] = i
            /\ aw'[i].pc # "returned"
            /\ awaiters'[aw[i].id] # i) =>
               \E j \in AwaiterIds \ {i} :
                   /\ aw[j].id = aw[i].id
                   /\ aw'[j].pc # aw[j].pc]_vars
====
